---- MODULE Spec2Model ----
(***************************************************************************)
(* Job ingestion and deduplication: backend/serpapi_fetcher.py,            *)
(* backend/scheduler.py, backend/models.py and the read side of            *)
(* backend/app.py.                                                         *)
(*                                                                         *)
(* Optional values (Python None, an absent JSON key, SQL NULL) are         *)
(* sequences of length at most one: None is <<>>, a present value x is     *)
(* <<x>>.  A title is a sequence of characters.                            *)
(***************************************************************************)
EXTENDS Integers, Sequences, FiniteSets, TLC

VARIABLES
    key,        \* SERPAPI_KEY, read from the environment when the module is imported
    autoflush,  \* autoflush setting of the sessions SessionLocal() makes
    jobs,       \* committed rows of table jobs, in insertion order
    runs,       \* committed rows of table scheduled_runs, in insertion order
    pc,         \* position of each thread that can run serpapi_job
    sess,       \* the SQLAlchemy session of each thread's cycle
    resp,       \* what requests.get gave this cycle
    results,    \* candidates of `results` the loop has not reached yet
    calls,      \* provider calls issued by this cycle
    exc,        \* exception propagating out of the cycle ("none": no exception)
    cyc,        \* number of the cycle a thread runs (bookkeeping)
    ncycles,    \* cycles started so far
    triggers,   \* cron firings and direct invocations so far
    netCalls,   \* provider calls issued so far
    fetched,    \* candidates the provider has returned so far
    restarts,   \* times the process has been started again
    outcomes,   \* outcome of each cycle, by cycle number ("running" until it ends)
    last,       \* response and outcome of the cycle that finished last
    rpc,        \* position of the request thread inside list_jobs
    rq,         \* q of the request list_jobs is serving, lowered
    rtotal,     \* total of the request list_jobs is serving (line 47)
    rseen,      \* committed rows the latest statement of list_jobs read
    reads,      \* requests list_jobs has served or is serving
    request,    \* q, page and limit of the latest request list_jobs served whole
    response,   \* what list_jobs returned to that request (line 58)
    now,        \* the clock datetime.utcnow() reads
    started,    \* the time at which each cycle started (bookkeeping)
    spc,        \* position of the caller of BaseRepository.session_scope
    ssession,   \* the session session_scope made: open, and its pending changes
    serr,       \* exception propagating inside session_scope ("none": no exception)
    scalls,     \* what ran inside the latest scope: session calls and raises, in order
    sraised,    \* what the latest with-statement raised to its caller
    entities,   \* committed entities of the repository's table
    nscopes     \* with-statements over session_scope entered so far

vars == <<key, autoflush, jobs, runs, pc, sess, resp, results, calls, exc, cyc,
          ncycles, triggers, netCalls, fetched, restarts, outcomes, last,
          rpc, rq, rtotal, rseen, reads, request, response, now, started,
          spc, ssession, serr, scalls, sraised, entities, nscopes>>

readerVars == <<rpc, rq, rtotal, rseen, reads, request, response>>

clockVars == <<now, started>>

scopeVars == <<spc, ssession, serr, scalls, sraised, entities, nscopes>>

----------------------------------------------------------------------------
(* Bounds *)

MaxTriggers == 2    \* cron firings and direct invocations in a run
MaxFetched == 2     \* candidates the provider returns in a run, over all cycles
MaxRestarts == 1    \* times the process is started again on the same database
MaxReads == 1       \* requests to /api/jobs in a run
MaxTime == 2        \* ticks of the clock in a run
MaxRows == 3        \* rows of table jobs when /api/jobs is queried
MaxStamp == 1       \* latest created_at among those rows
MaxLimit == 2       \* largest limit of a request
MaxScopes == 2      \* with-statements over session_scope in a run
MaxEntities == 2    \* entities the bodies add and delete

----------------------------------------------------------------------------
(* Values *)

None == <<>>
Some(x) == <<x>>

Procs == {"sched", "manual"}

\* SERPAPI_KEY unset, set to the empty string, set to a key.
KeyValues == {None, Some(""), Some("k")}

\* SessionLocal comes from backend/database.py: a sessionmaker whose
\* autoflush argument may be on (the library default) or off.
AutoflushSettings == BOOLEAN

Titles == {None, Some(<<"A">>)}
Companies == {None, Some("X")}
Locations == {None, Some("L")}
Descriptions == {Some("d1"), Some("d2")}
Extensions == {Some([link |-> Some("u")])}
PublishedAts == {Some("p")}

BaseCandidate ==
    [title |-> Some(<<"A">>), company_name |-> Some("X"), location |-> Some("L"),
     description |-> Some("d1"), detected_extensions |-> Some([link |-> Some("u")]),
     published_at |-> Some("p")]

AllCandidates ==
    [title : Titles, company_name : Companies, location : Locations,
     description : Descriptions, detected_extensions : Extensions,
     published_at : PublishedAts]

Differs(a, b) == IF a = b THEN 0 ELSE 1

Deviation(c) ==
    Differs(c.title, BaseCandidate.title)
    + Differs(c.company_name, BaseCandidate.company_name)
    + Differs(c.location, BaseCandidate.location)
    + Differs(c.description, BaseCandidate.description)
    + Differs(c.detected_extensions, BaseCandidate.detected_extensions)
    + Differs(c.published_at, BaseCandidate.published_at)

\* The elements of jobs_results the provider may return.
Candidates == {c \in AllCandidates : Deviation(c) <= 1}

SeqsUpTo(S, n) == UNION {[1..k -> S] : k \in 0..n}

NoResp == [kind |-> "none", status |-> 0, json |-> FALSE, has_results |-> FALSE,
           jobs_results |-> <<>>]

TimeoutResp == [kind |-> "timeout", status |-> 0, json |-> FALSE, has_results |-> FALSE,
                jobs_results |-> <<>>]

\* A body that is not JSON, under either status.
MalformedResps ==
    {[kind |-> "http", status |-> s, json |-> FALSE, has_results |-> FALSE,
      jobs_results |-> <<>>] : s \in {200, 500}}

\* A JSON object without the key jobs_results (an error object, for instance).
NoKeyResps ==
    {[kind |-> "http", status |-> s, json |-> TRUE, has_results |-> FALSE,
      jobs_results |-> <<>>] : s \in {200, 500}}

\* A 200 response whose JSON object holds jobs_results, of at most n candidates.
ResultResps(n) ==
    {[kind |-> "http", status |-> 200, json |-> TRUE, has_results |-> TRUE,
      jobs_results |-> js] : js \in SeqsUpTo(Candidates, n)}

IsFetchFailure(r) == r.kind = "timeout" \/ (r.kind = "http" /\ (r.status # 200 \/ ~r.json))

----------------------------------------------------------------------------
(* Helpers *)

\* Variant: the test is `SERPAPI_KEY is None`, so an empty key passes.
TruthyNotNone(k) == k # None

\* `not SERPAPI_KEY`: None and the empty string are falsy.
Truthy(k) == k # None /\ k # Some("")

\* dict.get(name) of an optional field: the value, or None when absent.
Get(field) == field

\* job.get('detected_extensions', {}).get('link')
Link(job) ==
    IF job.detected_extensions = None THEN None
    ELSE Head(job.detected_extensions).link

\* data.get('jobs_results', [])
JobsResults(r) == IF r.has_results THEN r.jobs_results ELSE <<>>

\* Job(...) of lines 31-38; c is the number of the cycle that makes the row.
NewJob(job, c) ==
    [title |-> Get(job.title), company |-> Get(job.company_name),
     location |-> Get(job.location), description |-> Get(job.description),
     url |-> Link(job), date_posted |-> Get(job.published_at), cyc |-> c]

\* Variant: api_calls_made is left to the column default of models.py.
NewRunDefaults(c) == [run_time |-> now, api_calls_made |-> 0, success |-> 1, cyc |-> c]

\* ScheduledRun(...) of line 41; utcnow() is read when the line runs.
NewRun(c) == [run_time |-> now, api_calls_made |-> 1, success |-> 1, cyc |-> c]

\* Variant: the comparison is SQL's col = value, which no NULL satisfies.
ColumnIsEq(col, value) == col # None /\ value # None /\ col = value

\* filter_by(col=value): col = value, and col IS NULL when value is None.
ColumnIs(col, value) == col = value

\* Variant: the lookup compares the description too.
MatchesAllFields(row, job) ==
    /\ ColumnIs(row.title, Get(job.title))
    /\ ColumnIs(row.company, Get(job.company_name))
    /\ ColumnIs(row.location, Get(job.location))
    /\ ColumnIs(row.description, Get(job.description))

\* filter_by(title=..., company=..., location=...) of lines 26-27
Matches(row, job) ==
    /\ ColumnIs(row.title, Get(job.title))
    /\ ColumnIs(row.company, Get(job.company_name))
    /\ ColumnIs(row.location, Get(job.location))

Exists(rows, job) == \E i \in 1..Len(rows) : Matches(rows[i], job)

\* title = Column(String, nullable=False): the INSERT of such a row fails.
ViolatesNotNull(rows) == \E i \in 1..Len(rows) : rows[i].title = None

\* No request to /api/jobs has been served whole yet.
NoRequest == [q |-> <<>>, page |-> 0, limit |-> 0]
NoResponse == [data |-> <<>>, total |-> 0, page |-> 0]

\* The session of session_scope before it is made and after it is closed.
ClosedScopeSession == [open |-> FALSE, new |-> {}, deleted |-> {}]

NoSession == [open |-> FALSE, pending |-> <<>>, flushed |-> <<>>]
FreshSession == [open |-> TRUE, pending |-> <<>>, flushed |-> <<>>]

\* Rows the session has INSERTed inside its open transaction once a query
\* has autoflushed (autoflush on), and the rows it still only holds in memory.
FlushedAtQuery(s) == IF autoflush THEN s.flushed \o s.pending ELSE s.flushed
PendingAtQuery(s) == IF autoflush THEN <<>> ELSE s.pending

\* What a statement of the session reads: the committed rows and the rows
\* of its own transaction.
Visible(s) == jobs \o FlushedAtQuery(s)

InFlight == {p \in Procs : pc[p] # "idle"}

----------------------------------------------------------------------------
(* Initial state *)

Init ==
    /\ key \in KeyValues
    /\ autoflush \in AutoflushSettings
    /\ jobs = <<>>
    /\ runs = <<>>
    /\ pc = [p \in Procs |-> "idle"]
    /\ sess = [p \in Procs |-> NoSession]
    /\ resp = [p \in Procs |-> NoResp]
    /\ results = [p \in Procs |-> <<>>]
    /\ calls = [p \in Procs |-> 0]
    /\ exc = [p \in Procs |-> "none"]
    /\ cyc = [p \in Procs |-> 0]
    /\ ncycles = 0
    /\ triggers = 0
    /\ netCalls = 0
    /\ fetched = 0
    /\ restarts = 0
    /\ outcomes = <<>>
    /\ last = [resp |-> NoResp, outcome |-> "none"]
    /\ rpc = "idle"
    /\ rq = <<>>
    /\ rtotal = 0
    /\ rseen = <<>>
    /\ reads = 0
    /\ request = NoRequest
    /\ response = NoResponse
    /\ now = 0
    /\ started = <<>>
    /\ spc = "out"
    /\ ssession = ClosedScopeSession
    /\ serr = "none"
    /\ scalls = <<>>
    /\ sraised = "none"
    /\ entities = {}
    /\ nscopes = 0

----------------------------------------------------------------------------
(* serpapi_job and fetch_and_store_jobs *)

\* serpapi_job starts on thread p: db = SessionLocal()
Enter(p) ==
    /\ pc' = [pc EXCEPT ![p] = "start"]
    /\ sess' = [sess EXCEPT ![p] = FreshSession]
    /\ resp' = [resp EXCEPT ![p] = NoResp]
    /\ results' = [results EXCEPT ![p] = <<>>]
    /\ calls' = [calls EXCEPT ![p] = 0]
    /\ exc' = [exc EXCEPT ![p] = "none"]
    /\ cyc' = [cyc EXCEPT ![p] = ncycles + 1]
    /\ ncycles' = ncycles + 1
    /\ triggers' = triggers + 1
    /\ outcomes' = Append(outcomes, "running")
    /\ started' = Append(started, now)

\* The cron trigger fires and no instance of the job is running: the
\* scheduler's executor runs serpapi_job.
SchedTrigger ==
    /\ triggers < MaxTriggers
    /\ pc["sched"] = "idle"
    /\ Enter("sched")
    /\ UNCHANGED <<key, autoflush, jobs, runs, netCalls, fetched, last, restarts,
                   readerVars, now, scopeVars>>

\* The cron trigger fires while the instance of the previous firing still
\* runs: add_job's default max_instances = 1 makes the scheduler skip the run.
SchedTriggerDropped ==
    /\ triggers < MaxTriggers
    /\ pc["sched"] # "idle"
    /\ triggers' = triggers + 1
    /\ UNCHANGED <<key, autoflush, jobs, runs, pc, sess, resp, results, calls, exc,
                   cyc, ncycles, netCalls, fetched, outcomes, last, restarts, readerVars, clockVars, scopeVars>>

\* Lines 12-14: no credential, return before any request.
SkipNoKey(p) ==
    /\ pc[p] = "start"
    /\ ~Truthy(key)
    /\ pc' = [pc EXCEPT ![p] = "closing"]
    /\ UNCHANGED <<key, autoflush, jobs, runs, sess, resp, results, calls, exc, cyc,
                   ncycles, triggers, netCalls, fetched, restarts, outcomes, last, restarts, readerVars, clockVars, scopeVars>>

\* Line 21: requests.get is called once; r is what it gives.
Request(p, r) ==
    /\ pc[p] = "start"
    /\ Truthy(key)
    /\ resp' = [resp EXCEPT ![p] = r]
    /\ calls' = [calls EXCEPT ![p] = calls[p] + 1]
    /\ netCalls' = netCalls + 1

\* Line 21 raises: the request times out after 30 seconds.
FetchTimeout(p) ==
    /\ Request(p, TimeoutResp)
    /\ pc' = [pc EXCEPT ![p] = "closing"]
    /\ exc' = [exc EXCEPT ![p] = "Timeout"]
    /\ UNCHANGED <<key, autoflush, jobs, runs, sess, results, cyc, ncycles, triggers,
                   fetched, outcomes, last, restarts, readerVars, clockVars, scopeVars>>

\* Line 22 raises: the body is not JSON.
FetchMalformed(p) ==
    /\ \E r \in MalformedResps : Request(p, r)
    /\ pc' = [pc EXCEPT ![p] = "closing"]
    /\ exc' = [exc EXCEPT ![p] = "JSONDecodeError"]
    /\ UNCHANGED <<key, autoflush, jobs, runs, sess, results, cyc, ncycles, triggers,
                   fetched, outcomes, last, restarts, readerVars, clockVars, scopeVars>>

\* Lines 21-24: the body parses; the status is not looked at.
FetchParsed(p) ==
    /\ \E r \in NoKeyResps \cup ResultResps(MaxFetched - fetched) :
          /\ Request(p, r)
          /\ results' = [results EXCEPT ![p] = JobsResults(r)]
          /\ fetched' = fetched + Len(JobsResults(r))
    /\ pc' = [pc EXCEPT ![p] = "loop"]
    /\ UNCHANGED <<key, autoflush, jobs, runs, sess, exc, cyc, ncycles, triggers,
                   outcomes, last, restarts, readerVars, clockVars, scopeVars>>

\* Lines 25-28: the query autoflushes the session first, and the INSERT of a
\* pending row without title raises IntegrityError.
LoopIntegrityError(p) ==
    /\ pc[p] = "loop"
    /\ results[p] # <<>>
    /\ autoflush
    /\ ViolatesNotNull(sess[p].pending)
    /\ sess' = [sess EXCEPT ![p].pending = <<>>, ![p].flushed = <<>>]
    /\ pc' = [pc EXCEPT ![p] = "closing"]
    /\ exc' = [exc EXCEPT ![p] = "IntegrityError"]
    /\ UNCHANGED <<key, autoflush, jobs, runs, resp, results, calls, cyc, ncycles,
                   triggers, netCalls, fetched, outcomes, last, restarts, readerVars, clockVars, scopeVars>>

\* Lines 25-30: a row with the candidate's key exists; continue.
LoopSkip(p) ==
    /\ pc[p] = "loop"
    /\ results[p] # <<>>
    /\ ~(autoflush /\ ViolatesNotNull(sess[p].pending))
    /\ Exists(Visible(sess[p]), Head(results[p]))
    /\ sess' = [sess EXCEPT ![p].pending = PendingAtQuery(sess[p]),
                            ![p].flushed = FlushedAtQuery(sess[p])]
    /\ results' = [results EXCEPT ![p] = Tail(results[p])]
    /\ UNCHANGED <<key, autoflush, jobs, runs, pc, resp, calls, exc, cyc, ncycles,
                   triggers, netCalls, fetched, outcomes, last, restarts, readerVars, clockVars, scopeVars>>

\* Variant: each new row is committed as soon as it is added.
LoopAddCommit(p) ==
    /\ pc[p] = "loop"
    /\ results[p] # <<>>
    /\ ~(autoflush /\ ViolatesNotNull(sess[p].pending))
    /\ ~Exists(Visible(sess[p]), Head(results[p]))
    /\ NewJob(Head(results[p]), cyc[p]).title # None
    /\ jobs' = Append(jobs, NewJob(Head(results[p]), cyc[p]))
    /\ results' = [results EXCEPT ![p] = Tail(results[p])]
    /\ UNCHANGED <<key, autoflush, runs, pc, sess, resp, calls, exc, cyc, ncycles,
                   triggers, netCalls, fetched, restarts, outcomes, last, readerVars, clockVars, scopeVars>>

\* Lines 25-40: no row with the candidate's key is found; db.add(j).
LoopAdd(p) ==
    /\ pc[p] = "loop"
    /\ results[p] # <<>>
    /\ ~(autoflush /\ ViolatesNotNull(sess[p].pending))
    /\ ~Exists(Visible(sess[p]), Head(results[p]))
    /\ sess' = [sess EXCEPT
                  ![p].pending = Append(PendingAtQuery(sess[p]),
                                        NewJob(Head(results[p]), cyc[p])),
                  ![p].flushed = FlushedAtQuery(sess[p])]
    /\ results' = [results EXCEPT ![p] = Tail(results[p])]
    /\ UNCHANGED <<key, autoflush, jobs, runs, pc, resp, calls, exc, cyc, ncycles,
                   triggers, netCalls, fetched, outcomes, last, restarts, readerVars, clockVars, scopeVars>>

\* Lines 41-43: the flush of db.commit() raises IntegrityError on a row
\* without title; the transaction is rolled back.
CommitIntegrityError(p) ==
    /\ pc[p] = "loop"
    /\ results[p] = <<>>
    /\ ViolatesNotNull(sess[p].pending)
    /\ sess' = [sess EXCEPT ![p].pending = <<>>, ![p].flushed = <<>>]
    /\ pc' = [pc EXCEPT ![p] = "closing"]
    /\ exc' = [exc EXCEPT ![p] = "IntegrityError"]
    /\ UNCHANGED <<key, autoflush, jobs, runs, resp, results, calls, cyc, ncycles,
                   triggers, netCalls, fetched, outcomes, last, restarts, readerVars, clockVars, scopeVars>>

\* Variant: the listings are committed before the run record is added, and
\* the commit that fails is the one of the run record.
CommitFailPartial(p) ==
    /\ pc[p] = "loop"
    /\ results[p] = <<>>
    /\ ~ViolatesNotNull(sess[p].pending)
    /\ jobs' = jobs \o sess[p].flushed \o sess[p].pending
    /\ sess' = [sess EXCEPT ![p].pending = <<>>, ![p].flushed = <<>>]
    /\ pc' = [pc EXCEPT ![p] = "closing"]
    /\ exc' = [exc EXCEPT ![p] = "OperationalError"]
    /\ UNCHANGED <<key, autoflush, runs, resp, results, calls, cyc, ncycles,
                   triggers, netCalls, fetched, restarts, outcomes, last, readerVars, clockVars, scopeVars>>

\* Lines 41-43: the database refuses the commit (connection lost, disk
\* full); nothing of the transaction is stored.
CommitFail(p) ==
    /\ pc[p] = "loop"
    /\ results[p] = <<>>
    /\ ~ViolatesNotNull(sess[p].pending)
    /\ sess' = [sess EXCEPT ![p].pending = <<>>, ![p].flushed = <<>>]
    /\ pc' = [pc EXCEPT ![p] = "closing"]
    /\ exc' = [exc EXCEPT ![p] = "OperationalError"]
    /\ UNCHANGED <<key, autoflush, jobs, runs, resp, results, calls, cyc, ncycles,
                   triggers, netCalls, fetched, outcomes, last, restarts, readerVars, clockVars, scopeVars>>

\* Variant: db.add(run) is missing; the commit stores the listings alone.
CommitOkNoRun(p) ==
    /\ pc[p] = "loop"
    /\ results[p] = <<>>
    /\ ~ViolatesNotNull(sess[p].pending)
    /\ jobs' = jobs \o sess[p].flushed \o sess[p].pending
    /\ sess' = [sess EXCEPT ![p].pending = <<>>, ![p].flushed = <<>>]
    /\ pc' = [pc EXCEPT ![p] = "closing"]
    /\ UNCHANGED <<key, autoflush, runs, resp, results, calls, exc, cyc, ncycles,
                   triggers, netCalls, fetched, restarts, outcomes, last, readerVars, clockVars, scopeVars>>

\* Variant: one run record is added for each listing the cycle stores.
CommitOkRunPerListing(p) ==
    /\ pc[p] = "loop"
    /\ results[p] = <<>>
    /\ ~ViolatesNotNull(sess[p].pending)
    /\ jobs' = jobs \o sess[p].flushed \o sess[p].pending
    /\ runs' = runs \o [i \in 1..Len(sess[p].flushed \o sess[p].pending) |-> NewRun(cyc[p])]
    /\ sess' = [sess EXCEPT ![p].pending = <<>>, ![p].flushed = <<>>]
    /\ pc' = [pc EXCEPT ![p] = "closing"]
    /\ UNCHANGED <<key, autoflush, resp, results, calls, exc, cyc, ncycles, triggers,
                   netCalls, fetched, outcomes, last, restarts, readerVars, clockVars, scopeVars>>

\* Lines 41-43: the run record is added and the one commit of the cycle
\* stores the new rows and the run record together.
CommitOk(p) ==
    /\ pc[p] = "loop"
    /\ results[p] = <<>>
    /\ ~ViolatesNotNull(sess[p].pending)
    /\ jobs' = jobs \o sess[p].flushed \o sess[p].pending
    /\ runs' = Append(runs, NewRun(cyc[p]))
    /\ sess' = [sess EXCEPT ![p].pending = <<>>, ![p].flushed = <<>>]
    /\ pc' = [pc EXCEPT ![p] = "closing"]
    /\ UNCHANGED <<key, autoflush, resp, results, calls, exc, cyc, ncycles, triggers,
                   netCalls, fetched, outcomes, last, restarts, readerVars, clockVars, scopeVars>>

\* How the cycle of thread p ends: the exception that leaves serpapi_job,
\* "skipped" for the return of line 14, "committed" for the return after
\* line 44.
Outcome(p) ==
    IF exc[p] # "none" THEN exc[p]
    ELSE IF resp[p] = NoResp THEN "skipped"
    ELSE "committed"

\* Variant: an exception that leaves serpapi_job ends the thread that runs
\* the scheduled jobs, which runs no job again.
CloseDies(p) ==
    /\ pc[p] = "closing"
    /\ sess' = [sess EXCEPT ![p] = NoSession]
    /\ pc' = [pc EXCEPT ![p] = IF exc[p] # "none" THEN "dead" ELSE "idle"]
    /\ outcomes' = [outcomes EXCEPT ![cyc[p]] = Outcome(p)]
    /\ last' = [resp |-> resp[p], outcome |-> Outcome(p)]
    /\ UNCHANGED <<key, autoflush, jobs, runs, resp, results, calls, exc, cyc,
                   ncycles, triggers, netCalls, fetched, restarts, readerVars, clockVars, scopeVars>>

\* Variant: db.close() after the call instead of in a finally clause, so
\* that an exception leaves the session open.
CloseOnSuccessOnly(p) ==
    /\ pc[p] = "closing"
    /\ sess' = [sess EXCEPT ![p] = IF exc[p] = "none" THEN NoSession ELSE sess[p]]
    /\ pc' = [pc EXCEPT ![p] = "idle"]
    /\ outcomes' = [outcomes EXCEPT ![cyc[p]] = Outcome(p)]
    /\ last' = [resp |-> resp[p], outcome |-> Outcome(p)]
    /\ UNCHANGED <<key, autoflush, jobs, runs, resp, results, calls, exc, cyc,
                   ncycles, triggers, netCalls, fetched, restarts, readerVars, clockVars, scopeVars>>

\* scheduler.py lines 13-14: db.close() in the finally clause; what the
\* session has not committed is rolled back, and serpapi_job returns or
\* lets the exception through.
Close(p) ==
    /\ pc[p] = "closing"
    /\ sess' = [sess EXCEPT ![p] = NoSession]
    /\ pc' = [pc EXCEPT ![p] = "idle"]
    /\ outcomes' = [outcomes EXCEPT ![cyc[p]] = Outcome(p)]
    /\ last' = [resp |-> resp[p], outcome |-> Outcome(p)]
    /\ UNCHANGED <<key, autoflush, jobs, runs, resp, results, calls, exc, cyc,
                   ncycles, triggers, netCalls, fetched, restarts, readerVars, clockVars, scopeVars>>

\* The process is stopped between cycles and started again: the module is
\* imported anew and line 5 reads SERPAPI_KEY from the new environment; the
\* database keeps its rows.
Restart ==
    /\ restarts < MaxRestarts
    /\ InFlight = {}
    /\ restarts' = restarts + 1
    /\ key' \in KeyValues \ {key}
    /\ UNCHANGED <<autoflush, jobs, runs, pc, sess, resp, results, calls, exc, cyc,
                   ncycles, triggers, netCalls, fetched, outcomes, last, readerVars, clockVars, scopeVars>>

Cycle(p) ==
    \/ SkipNoKey(p)
    \/ FetchTimeout(p)
    \/ FetchMalformed(p)
    \/ FetchParsed(p)
    \/ LoopIntegrityError(p)
    \/ LoopSkip(p)
    \/ LoopAdd(p)
    \/ CommitIntegrityError(p)
    \/ CommitFail(p)
    \/ CommitOk(p)
    \/ Close(p)

----------------------------------------------------------------------------
(* Direct invocation and the query surface *)

\* serpapi_job is called directly on another thread (a manual or immediate
\* run); the function looks at no running instance before it starts.
ManualInvoke ==
    /\ triggers < MaxTriggers
    /\ pc["manual"] = "idle"
    /\ Enter("manual")
    /\ UNCHANGED <<key, autoflush, jobs, runs, netCalls, fetched, restarts, last,
                   readerVars, now, scopeVars>>

\* str.lower() on the characters of the model
LowerChar(ch) == CASE ch = "A" -> "a" [] ch = "B" -> "b" [] OTHER -> ch
Lower(str) == [i \in 1..Len(str) |-> LowerChar(str[i])]

\* sub occurs in str
Contains(str, sub) ==
    \E i \in 1..(Len(str) - Len(sub) + 1) : SubSeq(str, i, i + Len(sub) - 1) = sub

\* str ILIKE pat: in the pattern % stands for any run of characters, _ for
\* any one character, and any other character for itself in either case.
RECURSIVE LikeMatch(_, _)
LikeMatch(str, pat) ==
    IF pat = <<>> THEN str = <<>>
    ELSE IF Head(pat) = "%"
         THEN \/ LikeMatch(str, Tail(pat))
              \/ str # <<>> /\ LikeMatch(Tail(str), pat)
    ELSE IF str = <<>> THEN FALSE
    ELSE IF Head(pat) = "_" THEN LikeMatch(Tail(str), Tail(pat))
    ELSE /\ LowerChar(Head(str)) = LowerChar(Head(pat))
         /\ LikeMatch(Tail(str), Tail(pat))

\* Job.title.ilike(f"%{q}%")
Ilike(title, q) == title # None /\ LikeMatch(Head(title), <<"%">> \o q \o <<"%">>)

\* Lines 44-46: the rows of `rows` the query selects.
Filter(rows, q) ==
    IF q = <<>> THEN rows ELSE SelectSeq(rows, LAMBDA row : Ilike(row.title, q))

\* The value of request.args.get('q', '') in the requests of the model.
Queries == {<<>>, <<"A">>}

\* Lines 39-47: a request arrives, q is lowered, and the count statement
\* reads the committed rows.
ListJobsCount ==
    /\ rpc = "idle"
    /\ reads < MaxReads
    /\ \E q \in Queries :
          /\ rq' = Lower(q)
          /\ rtotal' = Len(Filter(jobs, Lower(q)))
    /\ rseen' = jobs
    /\ rpc' = "counted"
    /\ reads' = reads + 1
    /\ UNCHANGED <<key, autoflush, jobs, runs, pc, sess, resp, results, calls, exc, cyc,
                   ncycles, triggers, netCalls, fetched, restarts, outcomes, last,
                   request, response, clockVars, scopeVars>>

\* Lines 48-58: the select statement reads the committed rows, the response
\* is built from the rows it gives and from total, and the request ends.
ListJobsSelect ==
    /\ rpc = "counted"
    /\ rseen' = jobs
    /\ rpc' = "idle"
    /\ rq' = <<>>
    /\ rtotal' = 0
    /\ UNCHANGED <<key, autoflush, jobs, runs, pc, sess, resp, results, calls, exc, cyc,
                   ncycles, triggers, netCalls, fetched, restarts, outcomes, last,
                   reads, request, response, clockVars, scopeVars>>

----------------------------------------------------------------------------
(* list_jobs on a table that no cycle is writing *)

Min(a, b) == IF a <= b THEN a ELSE b

\* Titles of the stored rows and values of q in the requests.
QueryTitles == {Some(<<"A">>), Some(<<"a", "b">>)}
QueryTexts == {<<>>, <<"A">>, <<"b">>, <<"_">>}

\* A row of table jobs: id is the autoincremented primary key, created_at
\* the column default utcnow() taken when the row is inserted.
StoredJob(id, title, stamp) ==
    [id |-> id, title |-> title, company |-> Some("X"), location |-> Some("L"),
     description |-> Some("d1"), url |-> Some("u"), date_posted |-> Some("p"),
     cyc |-> 0, created_at |-> stamp]

\* Tables of up to MaxRows rows in insertion order: ids ascend, created_at does
\* not descend, and rows inserted within one tick of the clock have the same
\* created_at.
StoreShapes ==
    {sh \in SeqsUpTo(QueryTitles \X (0..MaxStamp), MaxRows) :
        \A i \in 1..(Len(sh) - 1) : sh[i][2] <= sh[i + 1][2]}
Stores == {[i \in 1..Len(sh) |-> StoredJob(i, sh[i][1], sh[i][2])] : sh \in StoreShapes}

\* Variant: pages are counted from 0.
OffsetFromZero(page, limit) == page * limit

\* Line 42
Offset(page, limit) == (page - 1) * limit

\* order_by(Job.created_at.desc()): the orders the database may give the
\* rows in; rows with equal created_at come in any order.
OrderByCreatedAtDesc(rows) ==
    LET n == Len(rows)
        perms == {f \in [1..n -> 1..n] : \A i, j \in 1..n : f[i] = f[j] => i = j}
    IN {[i \in 1..n |-> rows[f[i]]] : f \in
           {g \in perms : \A i \in 1..(n - 1) :
                             rows[g[i]].created_at >= rows[g[i + 1]].created_at}}

\* .offset(offset).limit(limit)
OffsetLimit(rows, offset, limit) ==
    SubSeq(rows, offset + 1, Min(Len(rows), offset + limit))

\* Lines 49-57: the dict made of a row.
Item(j) ==
    [id |-> j.id, title |-> j.title, company |-> j.company, location |-> j.location,
     description |-> j.description, url |-> j.url, date_posted |-> j.date_posted]

\* Lines 38-58, on a table nothing writes between the two statements; the
\* response depends on the table and the arguments alone, and one request is
\* served to each table.
ListJobs ==
    /\ rpc = "idle"
    /\ request = NoRequest
    /\ \E qarg \in QueryTexts, page \in 1..MaxRows, limit \in 1..MaxLimit :
          LET q == Lower(qarg)
              query == Filter(jobs, q)
              total == Len(query)
          IN \E ordered \in OrderByCreatedAtDesc(query) :
                LET rows == OffsetLimit(ordered, Offset(page, limit), limit)
                    items == [i \in 1..Len(rows) |-> Item(rows[i])]
                IN /\ request' = [q |-> qarg, page |-> page, limit |-> limit]
                   /\ response' = [data |-> items, total |-> total, page |-> page]
    /\ reads' = reads + 1
    /\ UNCHANGED <<key, autoflush, jobs, runs, pc, sess, resp, results, calls, exc, cyc,
                   ncycles, triggers, netCalls, fetched, restarts, outcomes, last,
                   rpc, rq, rtotal, rseen, clockVars, scopeVars>>

InitQuery ==
    /\ key = None
    /\ autoflush = TRUE
    /\ jobs \in Stores
    /\ runs = <<>>
    /\ pc = [p \in Procs |-> "idle"]
    /\ sess = [p \in Procs |-> NoSession]
    /\ resp = [p \in Procs |-> NoResp]
    /\ results = [p \in Procs |-> <<>>]
    /\ calls = [p \in Procs |-> 0]
    /\ exc = [p \in Procs |-> "none"]
    /\ cyc = [p \in Procs |-> 0]
    /\ ncycles = 0
    /\ triggers = 0
    /\ netCalls = 0
    /\ fetched = 0
    /\ restarts = 0
    /\ outcomes = <<>>
    /\ last = [resp |-> NoResp, outcome |-> "none"]
    /\ rpc = "idle"
    /\ rq = <<>>
    /\ rtotal = 0
    /\ rseen = <<>>
    /\ reads = 0
    /\ request = NoRequest
    /\ response = NoResponse
    /\ now = 0
    /\ started = <<>>
    /\ spc = "out"
    /\ ssession = ClosedScopeSession
    /\ serr = "none"
    /\ scalls = <<>>
    /\ sraised = "none"
    /\ entities = {}
    /\ nscopes = 0

NextQuery == ListJobs

SpecQuery == InitQuery /\ [][NextQuery]_vars

----------------------------------------------------------------------------
(* Specification: the scheduler alone runs the job *)

Next ==
    \/ SchedTrigger
    \/ SchedTriggerDropped
    \/ Cycle("sched")
    \/ Restart

Spec == Init /\ [][Next]_vars

----------------------------------------------------------------------------
(* Specification: cron firings and direct invocations together *)

NextConc ==
    \/ SchedTrigger
    \/ SchedTriggerDropped
    \/ ManualInvoke
    \/ \E p \in Procs : Cycle(p)

SpecConc == Init /\ [][NextConc]_vars

----------------------------------------------------------------------------
(* Specification: requests to /api/jobs while the scheduler runs the job *)

NextRead ==
    \/ SchedTrigger
    \/ SchedTriggerDropped
    \/ Cycle("sched")
    \/ ListJobsCount
    \/ ListJobsSelect

SpecRead == Init /\ [][NextRead]_vars

-----------------------------------------------------------------------------
(* Specification: the scheduled cycles while the clock advances *)

\* Time passes between two steps of the program.
Tick ==
    /\ now < MaxTime
    /\ now' = now + 1
    /\ UNCHANGED <<key, autoflush, jobs, runs, pc, sess, resp, results, calls, exc,
                   cyc, ncycles, triggers, netCalls, fetched, restarts, outcomes,
                   last, readerVars, started, scopeVars>>

NextClock ==
    \/ SchedTrigger
    \/ SchedTriggerDropped
    \/ Cycle("sched")
    \/ Tick

SpecClock == Init /\ [][NextClock]_vars

----------------------------------------------------------------------------
(* BaseRepository.session_scope and the bodies that run inside it *)

Entities == 1..MaxEntities

\* Exceptions a body raises, and exceptions session.commit() raises.
BodyErrors == {"ValueError", "KeyError"}
ScopeCommitErrors == {"IntegrityError", "OperationalError"}

\* An entry of scalls: what ran and what it raised.
Call(name, err) == [call |-> name, raised |-> err]

\* Line 13 and the yield of line 15: the with-statement is entered.
ScopeEnter ==
    /\ spc = "out"
    /\ nscopes < MaxScopes
    /\ nscopes' = nscopes + 1
    /\ ssession' = [open |-> TRUE, new |-> {}, deleted |-> {}]
    /\ serr' = "none"
    /\ scalls' = <<>>
    /\ sraised' = "none"
    /\ spc' = "body"
    /\ UNCHANGED <<key, autoflush, jobs, runs, pc, sess, resp, results, calls, exc, cyc,
                   ncycles, triggers, netCalls, fetched, restarts, outcomes, last,
                   readerVars, clockVars, entities>>

\* Lines 23-24: the body calls add(session, entity).
BodyAdd(entity) ==
    /\ spc = "body"
    /\ entity \notin entities \cup ssession.new
    /\ ssession' = [ssession EXCEPT !.new = @ \cup {entity}]
    /\ UNCHANGED <<key, autoflush, jobs, runs, pc, sess, resp, results, calls, exc, cyc,
                   ncycles, triggers, netCalls, fetched, restarts, outcomes, last,
                   readerVars, clockVars, spc, serr, scalls, sraised, entities, nscopes>>

\* Lines 32-33: the body calls delete(session, entity) on a stored entity.
BodyDelete(entity) ==
    /\ spc = "body"
    /\ entity \in entities \ ssession.deleted
    /\ ssession' = [ssession EXCEPT !.deleted = @ \cup {entity}]
    /\ UNCHANGED <<key, autoflush, jobs, runs, pc, sess, resp, results, calls, exc, cyc,
                   ncycles, triggers, netCalls, fetched, restarts, outcomes, last,
                   readerVars, clockVars, spc, serr, scalls, sraised, entities, nscopes>>

\* The body raises (its own code, or a query of get or list_all, lines
\* 26-30): the exception is thrown into the generator at the yield of line 15.
BodyRaise(err) ==
    /\ spc = "body"
    /\ serr' = err
    /\ scalls' = Append(scalls, Call("body", err))
    /\ spc' = "except"
    /\ UNCHANGED <<key, autoflush, jobs, runs, pc, sess, resp, results, calls, exc, cyc,
                   ncycles, triggers, netCalls, fetched, restarts, outcomes, last,
                   readerVars, clockVars, ssession, sraised, entities, nscopes>>

\* The body ends without an exception: the generator goes on to line 16.
BodyReturn ==
    /\ spc = "body"
    /\ spc' = "commit"
    /\ UNCHANGED <<key, autoflush, jobs, runs, pc, sess, resp, results, calls, exc, cyc,
                   ncycles, triggers, netCalls, fetched, restarts, outcomes, last,
                   readerVars, clockVars, ssession, serr, scalls, sraised, entities,
                   nscopes>>

\* Line 16: session.commit() stores the changes of the session.
ScopeCommitOk ==
    /\ spc = "commit"
    /\ entities' = (entities \cup ssession.new) \ ssession.deleted
    /\ ssession' = [ssession EXCEPT !.new = {}, !.deleted = {}]
    /\ scalls' = Append(scalls, Call("commit", "none"))
    /\ spc' = "finally"
    /\ UNCHANGED <<key, autoflush, jobs, runs, pc, sess, resp, results, calls, exc, cyc,
                   ncycles, triggers, netCalls, fetched, restarts, outcomes, last,
                   readerVars, clockVars, serr, sraised, nscopes>>

\* Line 16: session.commit() raises; nothing is stored.
ScopeCommitRaise(err) ==
    /\ spc = "commit"
    /\ serr' = err
    /\ scalls' = Append(scalls, Call("commit", err))
    /\ spc' = "except"
    /\ UNCHANGED <<key, autoflush, jobs, runs, pc, sess, resp, results, calls, exc, cyc,
                   ncycles, triggers, netCalls, fetched, restarts, outcomes, last,
                   readerVars, clockVars, ssession, sraised, entities, nscopes>>

\* Variant: the except clause ends without `raise`.
ScopeExceptSwallows ==
    /\ spc = "except"
    /\ ssession' = [ssession EXCEPT !.new = {}, !.deleted = {}]
    /\ scalls' = Append(scalls, Call("rollback", "none"))
    /\ serr' = "none"
    /\ spc' = "finally"
    /\ UNCHANGED <<key, autoflush, jobs, runs, pc, sess, resp, results, calls, exc, cyc,
                   ncycles, triggers, netCalls, fetched, restarts, outcomes, last,
                   readerVars, clockVars, sraised, entities, nscopes>>

\* Lines 17-19: session.rollback() drops the changes of the session, and
\* `raise` lets the exception go on.
ScopeExcept ==
    /\ spc = "except"
    /\ ssession' = [ssession EXCEPT !.new = {}, !.deleted = {}]
    /\ scalls' = Append(scalls, Call("rollback", "none"))
    /\ spc' = "finally"
    /\ UNCHANGED <<key, autoflush, jobs, runs, pc, sess, resp, results, calls, exc, cyc,
                   ncycles, triggers, netCalls, fetched, restarts, outcomes, last,
                   readerVars, clockVars, serr, sraised, entities, nscopes>>

\* Lines 20-21: session.close(); the with-statement returns or raises the
\* exception that is propagating.
ScopeFinally ==
    /\ spc = "finally"
    /\ ssession' = [ssession EXCEPT !.open = FALSE]
    /\ scalls' = Append(scalls, Call("close", "none"))
    /\ sraised' = serr
    /\ serr' = "none"
    /\ spc' = "out"
    /\ UNCHANGED <<key, autoflush, jobs, runs, pc, sess, resp, results, calls, exc, cyc,
                   ncycles, triggers, netCalls, fetched, restarts, outcomes, last,
                   readerVars, clockVars, entities, nscopes>>

NextScope ==
    \/ ScopeEnter
    \/ \E entity \in Entities : BodyAdd(entity)
    \/ \E entity \in Entities : BodyDelete(entity)
    \/ \E err \in BodyErrors : BodyRaise(err)
    \/ BodyReturn
    \/ ScopeCommitOk
    \/ \E err \in ScopeCommitErrors : ScopeCommitRaise(err)
    \/ ScopeExcept
    \/ ScopeFinally

SpecScope == Init /\ [][NextScope]_vars

----------------------------------------------------------------------------
(* Vocabulary of the properties *)

\* The committed listings and run records that cycle c made.
RowsOfCycle(c) == SelectSeq(jobs, LAMBDA row : row.cyc = c)
RunsOfCycle(c) == SelectSeq(runs, LAMBDA run : run.cyc = c)

SameKey(a, b) == a.title = b.title /\ a.company = b.company /\ a.location = b.location

CommitErrors == {"IntegrityError", "OperationalError"}

\* fetch_and_store_jobs of cycle c ran to the end of line 43.
CycleCommitted(c) ==
    \/ outcomes[c] = "committed"
    \/ \E p \in Procs : /\ cyc[p] = c /\ pc[p] = "closing"
                        /\ exc[p] = "none" /\ resp[p] # NoResp

\* The commit of cycle c raised.
CommitFailed(c) ==
    \/ outcomes[c] \in CommitErrors
    \/ \E p \in Procs : cyc[p] = c /\ pc[p] = "closing" /\ exc[p] \in CommitErrors

\* The step is thread p coming out of db.commit() without an exception.
CommitStep(p) == pc[p] = "loop" /\ pc'[p] = "closing" /\ exc'[p] = "none"

\* Thread p has finished a cycle and started no other since.
Finished(p) == pc[p] = "idle" /\ cyc[p] > 0

----------------------------------------------------------------------------
(* C1: no two distinct rows of table jobs have the same title, company and
   location (the deduplication key), whatever the provider returned in the
   cycles run so far, one after the other, from an empty store. *)
DedupKeyInvariant ==
    \A i, j \in 1..Len(jobs) : SameKey(jobs[i], jobs[j]) => i = j

(* C2: a cycle that gets the same provider response as the cycle before it,
   which ran to its end without the database refusing its commit, stores no
   listing: the jobs table after it equals the jobs table before it. *)
Idempotence ==
    [][\A p \in Procs :
          (/\ pc[p] # "idle"
           /\ resp'[p] = last.resp
           /\ last.outcome \notin {"none", "OperationalError"})
              => jobs' = jobs]_vars

\* A second cycle has committed on the same non-empty response as the one
\* before it, whose listings are in the store.
IdempotenceWitness ==
    /\ pc["sched"] = "closing"
    /\ exc["sched"] = "none"
    /\ last.outcome = "committed"
    /\ resp["sched"] = last.resp
    /\ JobsResults(resp["sched"]) # <<>>
    /\ jobs # <<>>

(* C3: while no credential is configured (SERPAPI_KEY unset or empty), no
   step issues a provider call and no step changes the jobs table or the
   run ledger. *)
NoOpWithoutKey ==
    [][(key = None \/ key = Some(""))
          => (netCalls' = netCalls /\ jobs' = jobs /\ runs' = runs)]_vars

\* A cycle has returned at line 14 for an empty key, on a store that holds
\* listings and a run record of an earlier start of the process.
NoOpWithoutKeyWitness ==
    /\ key = Some("")
    /\ pc["sched"] = "closing"
    /\ resp["sched"] = NoResp
    /\ jobs # <<>>
    /\ runs # <<>>

(* C4: the commit of a cycle appends exactly one run record, with success 1
   and api_calls_made equal to the provider calls of that cycle, which is 1,
   however many listings the cycle stored; no other step touches the ledger,
   so it holds as many records as cycles have committed. *)
RunAccounting ==
    [][/\ \A p \in Procs :
             CommitStep(p) =>
                 /\ Len(runs') = Len(runs) + 1
                 /\ SubSeq(runs', 1, Len(runs)) = runs
                 /\ runs'[Len(runs')].api_calls_made = calls[p]
                 /\ runs'[Len(runs')].success = 1
                 /\ runs'[Len(runs')].cyc = cyc[p]
                 /\ calls[p] = 1
       /\ (~\E p \in Procs : CommitStep(p)) => runs' = runs
       /\ Len(runs') = Cardinality({c \in 1..ncycles' : CycleCommitted(c)'})]_vars

\* A second cycle has committed without a new listing and the ledger holds
\* two records.
RunAccountingWitness ==
    /\ pc["sched"] = "closing"
    /\ exc["sched"] = "none"
    /\ resp["sched"] # NoResp
    /\ RowsOfCycle(cyc["sched"]) = <<>>
    /\ jobs # <<>>
    /\ Len(runs) = 2

(* C5: the listings of a cycle and its run record are stored by one commit:
   a cycle has listings in the store only together with its one run record
   and only once it has committed; a cycle whose commit raised has neither
   listings nor a run record in the store, and the exception is what leaves
   serpapi_job. *)
UnitOfWork ==
    /\ \A c \in 1..ncycles :
          /\ RowsOfCycle(c) # <<>> => Len(RunsOfCycle(c)) = 1
          /\ (RowsOfCycle(c) # <<>> \/ RunsOfCycle(c) # <<>>) => CycleCommitted(c)
          /\ CommitFailed(c) => (RowsOfCycle(c) = <<>> /\ RunsOfCycle(c) = <<>>)
    /\ \A p \in Procs :
          (Finished(p) /\ exc[p] \in CommitErrors) => outcomes[cyc[p]] = exc[p]

\* The database has refused the commit of a cycle that had two new listings
\* to store, and the exception has left serpapi_job.
UnitOfWorkWitness ==
    /\ Finished("sched")
    /\ outcomes[cyc["sched"]] = "OperationalError"
    /\ Len(JobsResults(resp["sched"])) = 2
    /\ ~SameKey(NewJob(resp["sched"].jobs_results[1], 0),
                NewJob(resp["sched"].jobs_results[2], 0))
    /\ jobs = <<>>

(* C6: a finished cycle whose provider call failed (timeout, non-success
   status or malformed body) has one record in the run ledger, with success
   0 and api_calls_made equal to the calls the cycle issued. *)
FetchFailureRecorded ==
    \A p \in Procs :
        (Finished(p) /\ IsFetchFailure(resp[p])) =>
            /\ Len(RunsOfCycle(cyc[p])) = 1
            /\ RunsOfCycle(cyc[p])[1].success = 0
            /\ RunsOfCycle(cyc[p])[1].api_calls_made = calls[p]

(* C7: a cycle whose provider call failed (timeout, non-success status or
   malformed body) stores no listing, stores no run record with success 1
   and issues no second provider call. *)
FetchFailureAborts ==
    \A p \in Procs :
        (cyc[p] > 0 /\ IsFetchFailure(resp[p])) =>
            /\ RowsOfCycle(cyc[p]) = <<>>
            /\ \A i \in 1..Len(runs) : runs[i].cyc = cyc[p] => runs[i].success # 1
            /\ calls[p] <= 1

(* C8, as stated: once the triggered runs have ended, the run ledger holds
   as many records as there were triggers. *)
OneRunPerTrigger ==
    InFlight = {} => Len(runs) = triggers

(* C8, amended: a trigger writes at most one run record: a cycle has one
   record once it has committed and none otherwise (credential absent,
   exception, trigger skipped); the ledger never holds more records than
   there were triggers. *)
OneRunPerCommittedCycle ==
    /\ \A c \in 1..ncycles :
          Len(RunsOfCycle(c)) = IF CycleCommitted(c) THEN 1 ELSE 0
    /\ \A i \in 1..Len(runs) : runs[i].cyc \in 1..ncycles
    /\ ncycles <= triggers
    /\ Len(runs) <= triggers

\* Two triggers have ended, one in a cycle that committed without a new
\* listing and one without a record.
OneRunPerCommittedCycleWitness ==
    /\ InFlight = {}
    /\ triggers = 2
    /\ Len(runs) = 1
    /\ jobs = <<>>

(* C9: at most one cycle is in flight at any time, whether serpapi_job was
   started by the cron trigger or called directly. *)
AtMostOneInFlight ==
    Cardinality(InFlight) <= 1

(* C10: what a statement of list_jobs reads holds, of every cycle, none of
   its listings or all of them, and of a cycle that has not committed
   (still running, or ended by an exception) none. *)
NoPartialRead ==
    \A c \in 1..ncycles :
        LET seen == SelectSeq(rseen, LAMBDA row : row.cyc = c)
        IN  seen # <<>> => (CycleCommitted(c) /\ seen = RowsOfCycle(c))

\* list_jobs has counted the listings of an earlier cycle and waits to
\* select, while a cycle holds a new listing it has not committed.
NoPartialReadWitness ==
    /\ rpc = "counted"
    /\ rseen # <<>>
    /\ pc["sched"] = "loop"
    /\ sess["sched"].pending \o sess["sched"].flushed # <<>>

(* C11: the scheduler outlives a failed cycle: once the cycle of a cron
   firing has ended, with an exception or without, the next cron firing
   starts a new cycle; a failed cycle is not run again by itself: cycles
   start only on triggers and each issues at most one provider call. *)
SchedulerSurvives ==
    /\ (/\ cyc["sched"] > 0
        /\ outcomes[cyc["sched"]] # "running"
        /\ triggers < MaxTriggers) => ENABLED SchedTrigger
    /\ ncycles <= triggers
    /\ netCalls <= ncycles

\* The first cycle ended with an exception and the next cron firing has
\* started the second.
SchedulerSurvivesWitness ==
    /\ ncycles = 2
    /\ outcomes[1] \in {"Timeout", "JSONDecodeError", "IntegrityError", "OperationalError"}
    /\ pc["sched"] = "start"

(* C12: the existing record wins: no step changes or removes a stored
   listing (the jobs table only grows at its end), and no step stores a
   listing whose title, company and location are those of a listing stored
   before the step, whatever its other fields are. *)
ExistingRecordWins ==
    [][/\ Len(jobs') >= Len(jobs)
       /\ \A i \in 1..Len(jobs) : jobs'[i] = jobs[i]
       /\ \A j \in (Len(jobs) + 1)..Len(jobs') :
             \A i \in 1..Len(jobs) : ~SameKey(jobs'[j], jobs[i])]_vars

\* A cycle has committed whose one candidate has the key of the stored
\* listing and another description; the store holds the old listing alone.
ExistingRecordWinsWitness ==
    /\ pc["sched"] = "closing"
    /\ exc["sched"] = "none"
    /\ Len(jobs) = 1
    /\ jobs[1].cyc # cyc["sched"]
    /\ Len(JobsResults(resp["sched"])) = 1
    /\ SameKey(NewJob(resp["sched"].jobs_results[1], 0), jobs[1])
    /\ resp["sched"].jobs_results[1].description # jobs[1].description

(* C13: no absent field is fatal: a cycle whose provider response parsed
   (status 200, a JSON object) ends without an exception and with its run
   record stored, whichever fields its candidates lack, unless the database
   refused the commit. *)
AbsentFieldNotFatal ==
    \A p \in Procs :
        (/\ Finished(p)
         /\ resp[p].kind = "http" /\ resp[p].status = 200 /\ resp[p].json
         /\ exc[p] # "OperationalError")
            => (exc[p] = "none" /\ Len(RunsOfCycle(cyc[p])) = 1)

(* C17: listings and ledger move together: a step that adds listings to
   table jobs adds exactly one row to table scheduled_runs, no step removes
   or changes a stored listing or run record, a non-empty jobs table implies
   a non-empty scheduled_runs table, and scheduled_runs has as many rows as
   there are cycles that came out of db.commit() without an exception. *)
ListingsAndLedger ==
    /\ [](/\ jobs # <<>> => runs # <<>>
          /\ Len(runs) = Cardinality({c \in 1..ncycles : CycleCommitted(c)}))
    /\ [][/\ jobs' # jobs => /\ Len(jobs') > Len(jobs)
                             /\ SubSeq(jobs', 1, Len(jobs)) = jobs
                             /\ Len(runs') = Len(runs) + 1
          /\ Len(runs') >= Len(runs)
          /\ SubSeq(runs', 1, Len(runs)) = runs]_vars

ListingsAndLedgerWitness ==
    /\ ncycles = 2
    /\ CycleCommitted(1) /\ CycleCommitted(2)
    /\ RowsOfCycle(1) # <<>> /\ RowsOfCycle(2) # <<>>
    /\ Len(runs) = 2

(* C18: serpapi_job closes its session on every path: a thread that is not
   running a cycle holds no open session, a thread inside a cycle holds one,
   and a cycle that ended with an exception has left no listing and no run
   record in the database. *)
SessionClosed ==
    \A p \in Procs :
        /\ pc[p] = "idle" => sess[p] = NoSession
        /\ pc[p] # "idle" => sess[p].open
        /\ (Finished(p) /\ exc[p] # "none")
              => (RowsOfCycle(cyc[p]) = <<>> /\ RunsOfCycle(cyc[p]) = <<>>)

SessionClosedWitness ==
    /\ Finished("sched")
    /\ exc["sched"] = "OperationalError"
    /\ JobsResults(resp["sched"]) # <<>>
    /\ sess["sched"] = NoSession
    /\ \E c \in 1..ncycles : outcomes[c] = "skipped"

(* C14: every stored run record has run_time equal to the time at which
   its cycle started, before the provider call and the loop over the
   candidates. *)
RunTimeIsCycleStart ==
    \A i \in 1..Len(runs) : runs[i].run_time = started[runs[i].cyc]

\* The ids of the stored rows the query of the latest request selects.
Selected == {j \in 1..Len(jobs) : request.q = <<>> \/ Ilike(jobs[j].title, Lower(request.q))}

\* The stored row an item of the response was made of.
RowOf(item) == jobs[item.id]

(* C15: pagination: for a table with N rows selected by the filter, page
   p >= 1 and limit l >= 1, the response has total = N and page = p, and its
   data are min(l, max(0, N - (p-1)*l)) distinct selected rows, in
   created_at-descending order, the k-th of them a row that stands at
   position (p-1)*l + k when the selected rows are ordered by created_at
   descending. *)
PaginationCorrect ==
    response # NoResponse =>
        LET N == Cardinality(Selected)
            p == request.page
            l == request.limit
            d == response.data
            rest == IF N - (p - 1) * l > 0 THEN N - (p - 1) * l ELSE 0
        IN /\ response.total = N
           /\ response.page = p
           /\ Len(d) = Min(l, rest)
           /\ \A k \in 1..Len(d) :
                 /\ d[k].id \in Selected
                 /\ d[k] = Item(RowOf(d[k]))
                 /\ Cardinality({j \in Selected :
                        jobs[j].created_at > RowOf(d[k]).created_at}) <= (p - 1) * l + k - 1
                 /\ Cardinality({j \in Selected :
                        jobs[j].created_at >= RowOf(d[k]).created_at}) >= (p - 1) * l + k
           /\ \A k, m \in 1..Len(d) :
                 k < m => /\ d[k].id # d[m].id
                          /\ RowOf(d[k]).created_at >= RowOf(d[m]).created_at

PaginationWitness ==
    /\ request.page = 2 /\ request.limit = 2
    /\ response.total = 3
    /\ Len(response.data) = 1
    /\ \E i, j \in 1..Len(jobs) : i # j /\ jobs[i].created_at = jobs[j].created_at

\* The ids of the stored rows whose title contains q, letter case aside.
TitleContains ==
    {j \in 1..Len(jobs) :
        request.q = <<>> \/ Contains(Lower(Head(jobs[j].title)), Lower(request.q))}

(* C16: filter: with a non-empty q the response counts and lists exactly
   the stored rows whose title contains q as a substring, letter case aside;
   with q empty it counts and lists every row. *)
FilterIsSubstring ==
    response # NoResponse =>
        /\ response.total = Cardinality(TitleContains)
        /\ \A k \in 1..Len(response.data) : response.data[k].id \in TitleContains

\* How many entries of scalls are calls of `name`.
CallCount(name) == Cardinality({i \in 1..Len(scalls) : scalls[i].call = name})

\* The exceptions raised inside the latest scope.
ScopeErrors == {scalls[i].raised : i \in 1..Len(scalls)} \ {"none"}

(* C19: session_scope: a scope whose body and commit raise nothing makes
   exactly the calls commit, close and raises nothing; a scope whose body or
   commit raises calls rollback, then close, and raises that same exception
   to its caller; no scope both commits successfully and rolls back, none
   closes its session twice, and no session is open outside a scope. *)
ScopeDiscipline ==
    /\ CallCount("close") <= 1
    /\ CallCount("commit") <= 1
    /\ CallCount("rollback") <= 1
    /\ ~(/\ \E i \in 1..Len(scalls) : scalls[i] = Call("commit", "none")
         /\ CallCount("rollback") > 0)
    /\ ssession.open <=> spc # "out"
    /\ (spc = "out" /\ nscopes > 0) =>
          IF ScopeErrors = {}
          THEN /\ scalls = <<Call("commit", "none"), Call("close", "none")>>
               /\ sraised = "none"
          ELSE /\ ScopeErrors = {sraised}
               /\ scalls[Len(scalls)] = Call("close", "none")
               /\ scalls[Len(scalls) - 1] = Call("rollback", "none")
               /\ ssession.new = {} /\ ssession.deleted = {}

ScopeDisciplineWitness ==
    /\ spc = "out"
    /\ nscopes = 2
    /\ sraised = "IntegrityError"
    /\ scalls = <<Call("commit", "IntegrityError"), Call("rollback", "none"),
                  Call("close", "none")>>
    /\ entities # {}

====
